---- MODULE Spec2Model ----
(***************************************************************************)
(* sjtu::map (src/src/map.hpp): a unique-key ordered map on a red-black    *)
(* tree with parent links, and its bidirectional iterators.                *)
(*                                                                         *)
(* The heap is a function from addresses to Node records; nullptr is       *)
(* address 0.  Two map objects (1 and 2) live in the same heap, so that    *)
(* iterators of one map can be handed to the other and maps can be copied. *)
(* Every public member function is one action: its loops and the helpers   *)
(* it calls (rotations, fix-ups, transplant, copyTree, clearTree) are       *)
(* operators evaluated inside the action.                                  *)
(***************************************************************************)
EXTENDS Integers, Sequences, FiniteSets, TLC

\* The template is instantiated with Key = int restricted to 1..MaxKey,
\* T = bool (so T() is false) and Compare = std::less<int>.
MaxKey == 4
\* Keys used when both map objects are in play (SpecAll).
MaxCopyKey == 3

Null == 0
DefaultVal == FALSE

Maps == {1, 2}
Keys == 1..MaxKey
\* Keys of a single map that uses every address (SpecTall).
TallKeys == 1..(2 * MaxKey)
CopyKeys == 1..MaxCopyKey
Vals == BOOLEAN
Addrs == 1..(2 * MaxKey)

VARIABLES
  heap,       \* address -> Node (data.first, data.second, left, right, parent, color)
  root,       \* map object -> Node* root
  tree_size,  \* map object -> size_t tree_size
  alive,      \* map object -> constructed and not yet destroyed
  it,         \* one outstanding iterator object held by the caller: (node, container)
  ret,        \* what the last call returned or threw
  pc          \* "idle" between public calls; "fault" when a call trapped on nullptr

vars == <<heap, root, tree_size, alive, it, ret, pc>>

\* ------------------------------------------------------------------------
\* Node, allocation, comparator

\* Memory that holds no Node (never allocated, or deleted).
FreeNode ==
  [key |-> 0, val |-> FALSE, left |-> Null, right |-> Null, parent |-> Null,
   color |-> FALSE, live |-> FALSE]

\* Node(const value_type &val, Node *p): children null, colour red (true).
NewNode(k, v, p) ==
  [key |-> k, val |-> v, left |-> Null, right |-> Null, parent |-> p,
   color |-> TRUE, live |-> TRUE]

\* operator new: returns an address that holds no live Node.  The allocator
\* of the model keeps one slot per (map object, key); a key is stored at most
\* once per map, so the slot is free whenever a node for that key is created.
NewAddr(m, k) == (m - 1) * MaxKey + k

\* Compare = std::less<Key>
CompNotStrict(a, b) == a <= b
Comp(a, b) == a < b

Opp(dir) == IF dir = "left" THEN "right" ELSE "left"

\* A tree under modification: the heap h, the owning map's root r, the
\* cursor z of the running fix-up (z in fixInsert, x in fixDelete), and
\* bad = a field of nullptr was read.
Tree(h, r, z) == [h |-> h, r |-> r, z |-> z, bad |-> FALSE]
Trap(t) == [t EXCEPT !.bad = TRUE]

\* n->f = v;   if (n != nullptr) n->f = v;   root = v;   the cursor = v
Set(t, n, f, v) == [t EXCEPT !.h[n][f] = v]
SetIf(t, n, f, v) == IF n = Null THEN t ELSE [t EXCEPT !.h[n][f] = v]
SetRoot(t, v) == [t EXCEPT !.r = v]
SetZ(t, v) == [t EXCEPT !.z = v]

\* ------------------------------------------------------------------------
\* Rotations.  Rotate(t, x, "left") is leftRotate(x): y = x->right comes up
\* and x becomes y->left; Rotate(t, x, "right") is rightRotate(x).

\* x->right = y->left; if (y->left != nullptr) y->left->parent = x;
\* y->parent = x->parent;
RotateA(t, x, y, dir) ==
  Set(SetIf(Set(t, x, Opp(dir), t.h[y][dir]), t.h[y][dir], "parent", x),
      y, "parent", t.h[x].parent)

\* if (x->parent == nullptr) root = y;
\* else if (x == x->parent->left) x->parent->left = y; else x->parent->right = y;
RotateB(t, x, y, dir) ==
  IF t.h[x].parent = Null THEN SetRoot(t, y)
  ELSE IF x = t.h[t.h[x].parent][dir] THEN Set(t, t.h[x].parent, dir, y)
  ELSE Set(t, t.h[x].parent, Opp(dir), y)

\* y->left = x; x->parent = y;
RotateCNoParent(t, x, y, dir) == Set(t, y, dir, x)
RotateC(t, x, y, dir) == Set(Set(t, y, dir, x), x, "parent", y)

Rotate(t, x, dir) ==
  IF t.bad THEN t
  ELSE IF x = Null THEN Trap(t)
  ELSE IF t.h[x][Opp(dir)] = Null THEN Trap(t)
  ELSE RotateC(RotateB(RotateA(t, x, t.h[x][Opp(dir)], dir),
                       x, t.h[x][Opp(dir)], dir),
               x, t.h[x][Opp(dir)], dir)

leftRotate(t, x) == Rotate(t, x, "left")
rightRotate(t, x) == Rotate(t, x, "right")

\* ------------------------------------------------------------------------
\* fixInsert

\* y != nullptr && y->color
UncleNeverRed(h, y) == FALSE
UncleIsRed(h, y) == y # Null /\ h[y].color

\* z->parent->color = false; z->parent->parent->color = true;
\* rightRotate(z->parent->parent)   (leftRotate on the "right" side)
FixInsertLine(t, dir) ==
  IF t.bad THEN t
  ELSE IF t.h[t.z].parent = Null THEN Trap(t)
  ELSE IF t.h[t.h[t.z].parent].parent = Null THEN Trap(t)
  ELSE Rotate(Set(Set(t, t.h[t.z].parent, "color", FALSE),
                  t.h[t.h[t.z].parent].parent, "color", TRUE),
              t.h[t.h[t.z].parent].parent, Opp(dir))

\* One iteration of the while loop of fixInsert, for the side dir on which
\* z->parent hangs under z->parent->parent ("left": lines 83-97, "right":
\* lines 99-113); y is the uncle.
FixInsertSide(t, dir) ==
  LET z == t.z
      p == t.h[z].parent
      g == t.h[p].parent
      y == t.h[g][Opp(dir)]
  IN IF UncleIsRed(t.h, y)
     THEN SetZ(Set(Set(Set(t, p, "color", FALSE), y, "color", FALSE),
                   g, "color", TRUE),
               g)
     ELSE FixInsertLine(IF z = t.h[p][Opp(dir)]
                        THEN Rotate(SetZ(t, p), p, dir) ELSE t,
                        dir)

\* if (z->parent == z->parent->parent->left) ... else ...
FixInsertBody(t) ==
  IF t.h[t.h[t.z].parent].parent = Null THEN Trap(t)
  ELSE IF t.h[t.z].parent = t.h[t.h[t.h[t.z].parent].parent].left
       THEN FixInsertSide(t, "left")
  ELSE FixInsertSide(t, "right")

\* while (z != root && z->parent->color)
FixInsertCondNever(t) == FALSE
FixInsertCond(t) ==
  /\ t.z # t.r
  /\ t.h[t.z].parent # Null
  /\ t.h[t.h[t.z].parent].color

\* The loop condition itself reads z->parent->color.
FixInsertCondTraps(t) == t.z # t.r /\ t.h[t.z].parent = Null

\* root->color = false
BlackenRootForgotten(t) == t
BlackenRoot(t) ==
  IF t.r = Null THEN Trap(t) ELSE Set(t, t.r, "color", FALSE)

RECURSIVE FixInsertLoop(_, _)
FixInsertLoop(t, fuel) ==
  IF t.bad THEN t
  ELSE IF FixInsertCondTraps(t) THEN Trap(t)
  ELSE IF ~FixInsertCond(t) THEN BlackenRoot(t)
  ELSE IF fuel = 0 THEN Trap(t)
  ELSE FixInsertLoop(FixInsertBody(t), fuel - 1)

fixInsert(t) == FixInsertLoop(t, 2 * MaxKey)

\* ------------------------------------------------------------------------
\* insert

\* The descent of insert (lines 613-623): the last node visited and the node
\* holding an equivalent key, if there is one.
RECURSIVE InsertDescend(_, _, _, _, _)
InsertDescend(h, parent, current, k, fuel) ==
  IF current = Null \/ fuel = 0 THEN [parent |-> parent, current |-> Null]
  ELSE IF Comp(k, h[current].key)
       THEN InsertDescend(h, current, h[current].left, k, fuel - 1)
  ELSE IF Comp(h[current].key, k)
       THEN InsertDescend(h, current, h[current].right, k, fuel - 1)
  ELSE [parent |-> current, current |-> current]

\* comp(value.first, parent->data.first) ? parent->left : parent->right
AttachSideSwapped(k, pk) == IF Comp(k, pk) THEN "right" ELSE "left"
AttachSide(k, pk) == IF Comp(k, pk) THEN "left" ELSE "right"

\* tree_size++
IncSizeForgotten(n) == n
IncSize(n) == n + 1

\* Node *newNode = new Node(value, parent); and its attachment (lines 625-632)
InsertAttach(t, n, k, v, parent) ==
  IF parent = Null
  THEN SetRoot([t EXCEPT !.h[n] = NewNode(k, v, parent)], n)
  ELSE Set([t EXCEPT !.h[n] = NewNode(k, v, parent)],
           parent, AttachSide(k, t.h[parent].key), n)

\* The new-key path of insert: attach, then fixInsert(newNode).
InsertNew(h, r, n, k, v, parent) ==
  fixInsert(SetZ(InsertAttach(Tree(h, r, Null), n, k, v, parent), n))

\* insert(value) on map m with root r: the tree afterwards, the node of the
\* returned iterator and the returned flag.
InsertAt(h, r, m, k, v, d) ==
  IF d.current # Null
  THEN [t |-> Tree(h, r, Null), node |-> d.current, inserted |-> FALSE]
  ELSE [t |-> InsertNew(h, r, NewAddr(m, k), k, v, d.parent),
        node |-> NewAddr(m, k), inserted |-> TRUE]

InsertTree(h, r, m, k, v) ==
  InsertAt(h, r, m, k, v, InsertDescend(h, Null, r, k, 2 * MaxKey))

Iter(n, c) == [node |-> n, container |-> c]

\* The last call: which member function, the exception it threw ("none" when
\* it returned), and the bool it returned (insert's second; otherwise FALSE).
Ret(op, threw, ok) == [op |-> op, threw |-> threw, ok |-> ok]

\* The writes of insert to the map object, given its result res.
InsertCommit(m, res, op) ==
  /\ heap' = res.t.h
  /\ root' = [root EXCEPT ![m] = res.t.r]
  /\ tree_size' = IF res.inserted /\ ~res.t.bad
                  THEN [tree_size EXCEPT ![m] = IncSize(@)]
                  ELSE tree_size
  /\ pc' = IF res.t.bad THEN "fault" ELSE "idle"
  /\ ret' = Ret(op, "none", res.inserted)

\* pair<iterator, bool> insert(const value_type &value)
Insert(m, k, v) ==
  /\ pc = "idle"
  /\ alive[m]
  /\ InsertCommit(m, InsertTree(heap, root[m], m, k, v), "insert")
  /\ UNCHANGED <<alive, it>>

\* ------------------------------------------------------------------------
\* findNode, operator[]

RECURSIVE FindLoop(_, _, _, _)
FindLoop(h, current, k, fuel) ==
  IF current = Null \/ fuel = 0 THEN Null
  ELSE IF Comp(k, h[current].key) THEN FindLoop(h, h[current].left, k, fuel - 1)
  ELSE IF Comp(h[current].key, k) THEN FindLoop(h, h[current].right, k, fuel - 1)
  ELSE current

findNode(h, r, k) == FindLoop(h, r, k, 2 * MaxKey)

\* T &operator[](const Key &key)
Subscript(m, k) ==
  /\ pc = "idle"
  /\ alive[m]
  /\ IF findNode(heap, root[m], k) # Null
     THEN /\ ret' = Ret("subscript", "none", FALSE)
          /\ UNCHANGED <<heap, root, tree_size, pc>>
     ELSE InsertCommit(m, InsertTree(heap, root[m], m, k, DefaultVal), "subscript")
  /\ UNCHANGED <<alive, it>>

\* ------------------------------------------------------------------------
\* at, const operator[], count, and writes through the returned reference

\* The node whose data.second at(key) returns a reference to; Null when it
\* throws index_out_of_bound.
AtRefRoot(h, r, k) == r
AtRef(h, r, k) == findNode(h, r, k)

\* The node whose data.second operator[](key) returns a reference to: the
\* node found, or else the node of the iterator that insert returns.
SubscriptRef(h, r, m, k) ==
  IF findNode(h, r, k) # Null THEN findNode(h, r, k)
  ELSE InsertTree(h, r, m, k, DefaultVal).node

\* T &at(const Key &key) and its const overload, called as op: the bool read
\* through the returned reference, or index_out_of_bound.
AtCall(m, k, op) ==
  /\ pc = "idle"
  /\ alive[m]
  /\ ret' = IF AtRef(heap, root[m], k) = Null
            THEN Ret(op, "index_out_of_bound", FALSE)
            ELSE Ret(op, "none", heap[AtRef(heap, root[m], k)].val)
  /\ UNCHANGED <<heap, root, tree_size, alive, it, pc>>

At(m, k) == AtCall(m, k, "at")

\* const T &operator[](const Key &key) const { return at(key); }
ConstSubscriptInserts(m, k) == Subscript(m, k)
ConstSubscript(m, k) == AtCall(m, k, "const_subscript")

\* size_t count(const Key &key) const
CountThroughSize(h, r, k) == IF r # Null THEN 1 ELSE 0
count(h, r, k) == IF findNode(h, r, k) # Null THEN 1 ELSE 0

\* The call m.count(key); ret.ok tells whether it returned 1.
Count(m, k) ==
  /\ pc = "idle"
  /\ alive[m]
  /\ ret' = Ret("count", "none", count(heap, root[m], k) = 1)
  /\ UNCHANGED <<heap, root, tree_size, alive, it, pc>>

\* The statement  m.at(key) = v;
AtAssign(m, k, v) ==
  /\ pc = "idle"
  /\ alive[m]
  /\ IF AtRef(heap, root[m], k) = Null
     THEN /\ ret' = Ret("at_write", "index_out_of_bound", FALSE)
          /\ UNCHANGED heap
     ELSE /\ ret' = Ret("at_write", "none", v)
          /\ heap' = [heap EXCEPT ![AtRef(heap, root[m], k)].val = v]
  /\ UNCHANGED <<root, tree_size, alive, it, pc>>

\* The write of v through the reference operator[] returned, on the result
\* res of the insert it made.
WriteThrough(res, v) ==
  IF res.t.bad THEN res ELSE [res EXCEPT !.t.h[res.node].val = v]

\* The statement  m[key] = v;  operator[] returns the stored value of key,
\* inserting T() under it first when the key is absent, and v is written
\* through the returned reference.
SubscriptAssign(m, k, v) ==
  /\ pc = "idle"
  /\ alive[m]
  /\ IF findNode(heap, root[m], k) # Null
     THEN /\ heap' = [heap EXCEPT ![SubscriptRef(heap, root[m], m, k)].val = v]
          /\ ret' = Ret("subscript_write", "none", FALSE)
          /\ UNCHANGED <<root, tree_size, pc>>
     ELSE InsertCommit(m, WriteThrough(InsertTree(heap, root[m], m, k, DefaultVal), v),
                       "subscript_write")
  /\ UNCHANGED <<alive, it>>

\* ------------------------------------------------------------------------
\* minimum, maximum

RECURSIVE MinLoop(_, _, _)
MinLoop(h, node, fuel) ==
  IF node # Null /\ h[node].left # Null /\ fuel > 0
  THEN MinLoop(h, h[node].left, fuel - 1) ELSE node

RECURSIVE MaxLoop(_, _, _)
MaxLoop(h, node, fuel) ==
  IF node # Null /\ h[node].right # Null /\ fuel > 0
  THEN MaxLoop(h, h[node].right, fuel - 1) ELSE node

minimum(h, node) == MinLoop(h, node, 2 * MaxKey)
MaximumIsRoot(h, node) == node
maximum(h, node) == MaxLoop(h, node, 2 * MaxKey)

\* ------------------------------------------------------------------------
\* transplant, fixDelete, erase

\* transplant(u, v): put v where u hangs.
TransplantLink(t, u, v) ==
  IF t.h[u].parent = Null THEN SetRoot(t, v)
  ELSE IF u = t.h[t.h[u].parent].left THEN Set(t, t.h[u].parent, "left", v)
  ELSE Set(t, t.h[u].parent, "right", v)

TransplantNoParent(t, u, v) == TransplantLink(t, u, v)
transplant(t, u, v) == SetIf(TransplantLink(t, u, v), v, "parent", t.h[u].parent)

\* n == nullptr || !n->color
IsBlack(h, n) == n = Null \/ ~h[n].color

\* The sibling w = x->parent->right ("left" side) of the cursor x = t.z.
Sibling(t, dir) == t.h[t.h[t.z].parent][Opp(dir)]

\* if (w->color) { w->color = false; x->parent->color = true;
\*                 leftRotate(x->parent); w = x->parent->right; }
FixDeleteRedSibling(t, dir) ==
  IF Sibling(t, dir) = Null THEN Trap(t)
  ELSE IF t.h[Sibling(t, dir)].color
       THEN Rotate(Set(Set(t, Sibling(t, dir), "color", FALSE),
                       t.h[t.z].parent, "color", TRUE),
                   t.h[t.z].parent, dir)
  ELSE t

\* if (w->right == nullptr || !w->right->color) { if (w->left != nullptr)
\*   w->left->color = false; w->color = true; rightRotate(w);
\*   w = x->parent->right; }
FixDeleteNear(t, dir) ==
  IF IsBlack(t.h, t.h[Sibling(t, dir)][Opp(dir)])
  THEN Rotate(Set(SetIf(t, t.h[Sibling(t, dir)][dir], "color", FALSE),
                  Sibling(t, dir), "color", TRUE),
              Sibling(t, dir), Opp(dir))
  ELSE t

\* w->color = x->parent->color; x->parent->color = false;
\* if (w->right != nullptr) w->right->color = false;
\* leftRotate(x->parent); x = root;
FixDeleteFar(t, dir) ==
  IF t.bad THEN t
  ELSE IF Sibling(t, dir) = Null THEN Trap(t)
  ELSE LET u == Rotate(SetIf(Set(Set(t, Sibling(t, dir), "color",
                                     t.h[t.h[t.z].parent].color),
                                 t.h[t.z].parent, "color", FALSE),
                             t.h[Sibling(t, dir)][Opp(dir)], "color", FALSE),
                       t.h[t.z].parent, dir)
       IN SetZ(u, u.r)

\* The part of the loop body after the red-sibling case: w is black here.
FixDeleteBlackSibling(t, dir) ==
  IF t.bad THEN t
  ELSE IF Sibling(t, dir) = Null THEN Trap(t)
  ELSE IF /\ IsBlack(t.h, t.h[Sibling(t, dir)][dir])
          /\ IsBlack(t.h, t.h[Sibling(t, dir)][Opp(dir)])
       THEN SetZ(Set(t, Sibling(t, dir), "color", TRUE), t.h[t.z].parent)
  ELSE FixDeleteFar(FixDeleteNear(t, dir), dir)

\* One iteration of the while loop of fixDelete with x = t.z a real node on
\* side dir of its parent ("left": lines 135-158, "right": lines 160-183).
FixDeleteSide(t, dir) == FixDeleteBlackSibling(FixDeleteRedSibling(t, dir), dir)

\* The loop body starts with `x == x->parent->left`: it reads x->parent, also
\* when x is nullptr (the loop condition lets a null x in), and then
\* x->parent->left.
FixDeleteBody(t) ==
  IF t.z = Null THEN Trap(t)
  ELSE IF t.h[t.z].parent = Null THEN Trap(t)
  ELSE IF t.z = t.h[t.h[t.z].parent].left THEN FixDeleteSide(t, "left")
  ELSE FixDeleteSide(t, "right")

\* while (x != root && (x == nullptr || !x->color))
FixDeleteCond(t) == t.z # t.r /\ IsBlack(t.h, t.z)

RECURSIVE FixDeleteLoop(_, _)
FixDeleteLoop(t, fuel) ==
  IF t.bad THEN t
  ELSE IF ~FixDeleteCond(t) THEN SetIf(t, t.z, "color", FALSE)
  ELSE IF fuel = 0 THEN Trap(t)
  ELSE FixDeleteLoop(FixDeleteBody(t), fuel - 1)

fixDelete(t) == FixDeleteLoop(t, 2 * MaxKey)

\* if (!y_original_color) fixDelete(x);
EraseFix(t, y_original_color, x) ==
  IF ~y_original_color THEN fixDelete(SetZ(t, x)) ELSE t

\* y->right = z->right; y->right->parent = y;
EraseGraft(t, z, y) ==
  Set(Set(t, y, "right", t.h[z].right), t.h[z].right, "parent", y)

\* y->left = z->left; y->left->parent = y; y->color = z->color;
EraseAdopt(t, z, y) ==
  Set(Set(Set(t, y, "left", t.h[z].left), t.h[z].left, "parent", y),
      y, "color", t.h[z].color)

\* The two-children case (lines 661-674) with y = minimum(z->right).
EraseSplice(t, z, y) ==
  IF t.h[y].parent = z THEN SetIf(t, t.h[y].right, "parent", y)
  ELSE EraseGraft(transplant(t, y, t.h[y].right), z, y)

EraseTwo(t, z, y) ==
  EraseFix(EraseAdopt(transplant(EraseSplice(t, z, y), z, y), z, y),
           t.h[y].color, t.h[y].right)

\* erase, lines 649-679, on the node z: the unlinking and the fix-up, up to
\* but not including `delete z; tree_size--`.
EraseTree(h, r, z) ==
  IF h[z].left = Null
  THEN EraseFix(transplant(Tree(h, r, Null), z, h[z].right), h[z].color, h[z].right)
  ELSE IF h[z].right = Null
  THEN EraseFix(transplant(Tree(h, r, Null), z, h[z].left), h[z].color, h[z].left)
  ELSE EraseTwo(Tree(h, r, Null), z, minimum(h, h[z].right))

\* pos.container != this || pos.node == nullptr
EraseGuardNodeOnly(pos, m) == pos.node = Null
EraseGuard(pos, m) == pos.container # m \/ pos.node = Null

\* tree_size--
DecSizeForgotten(n) == n
DecSize(n) == n - 1

\* Nodes reachable from n by child links.
RECURSIVE Reach(_, _, _)
Reach(h, n, fuel) ==
  IF n = Null \/ fuel = 0 THEN {}
  ELSE {n} \cup UNION {Reach(h, x, fuel - 1) : x \in {h[n].left, h[n].right}}

NodesOf(m) == Reach(heap, root[m], 2 * MaxKey)

\* The iterator values a caller can hold without a dangling node: a node of
\* a live map, the end of a live map, or a default-constructed iterator.
ValidIters ==
  {Iter(Null, Null)}
    \cup {Iter(Null, c) : c \in {c \in Maps : alive[c]}}
    \cup UNION {{Iter(n, c) : n \in NodesOf(c)} : c \in {c \in Maps : alive[c]}}

\* The writes of erase after the unlinking: delete z; tree_size--.  A trap
\* inside fixDelete ends the process in the middle of the call: the memory
\* stays as it was at the faulting read, z is neither deleted nor counted
\* out, and nothing runs afterwards.
EraseCommit(m, z, t) ==
  /\ root' = [root EXCEPT ![m] = t.r]
  /\ ret' = Ret("erase", "none", FALSE)
  /\ heap' = IF t.bad THEN t.h ELSE [t.h EXCEPT ![z] = FreeNode]
  /\ tree_size' = IF t.bad THEN tree_size ELSE [tree_size EXCEPT ![m] = DecSize(@)]
  /\ pc' = IF t.bad THEN "fault" ELSE "idle"

\* void erase(iterator pos); the caller passes a value of ValidIters.
Erase(m, pos) ==
  /\ pc = "idle"
  /\ alive[m]
  /\ IF EraseGuard(pos, m)
     THEN /\ ret' = Ret("erase", "invalid_iterator", FALSE)
          /\ UNCHANGED <<heap, root, tree_size, pc>>
     ELSE EraseCommit(m, pos.node, EraseTree(heap, root[m], pos.node))
  /\ UNCHANGED <<alive, it>>

\* ------------------------------------------------------------------------
\* Iterators.  iterator and const_iterator have the same fields and the same
\* code for ++, --, ==, * (lines 257-364 and 386-474); one model serves both.

\* The ascent of operator++ (dir = "right") and operator-- (dir = "left"):
\* while (parent != nullptr && node == parent->dir) climb; result is parent.
RECURSIVE AscendLoop(_, _, _, _, _)
AscendLoop(h, node, parent, dir, fuel) ==
  IF parent # Null /\ node = h[parent][dir] /\ fuel > 0
  THEN AscendLoop(h, parent, h[parent].parent, dir, fuel - 1)
  ELSE parent

\* operator++ on a non-null node: the node the iterator holds afterwards.
IncNode(h, node) ==
  IF h[node].right # Null THEN minimum(h, h[node].right)
  ELSE AscendLoop(h, node, h[node].parent, "right", 2 * MaxKey)

\* The node operator-- assigns to the iterator's node field (lines 300-319).
DecNode(h, i) ==
  IF i.node = Null THEN maximum(h, root[i.container])
  ELSE IF h[i.node].left # Null THEN MaxLoop(h, h[i.node].left, 2 * MaxKey)
  ELSE AscendLoop(h, i.node, h[i.node].parent, "left", 2 * MaxKey)

\* operator-- : the node field after the call and whether it threw.  The
\* node field is assigned before the final null test of line 320.
DecIter(h, i) ==
  IF i.node = Null /\ (i.container = Null \/ root[i.container] = Null)
  THEN [node |-> i.node, threw |-> TRUE]
  ELSE [node |-> DecNode(h, i), threw |-> (DecNode(h, i) = Null)]

\* operator== (all four overloads): node == rhs.node && container == rhs.container
IterEqNodeOnly(a, b) == a.node = b.node
IterEq(a, b) == a.node = b.node /\ a.container = b.container

\* begin(), end(), find(key)
Begin(m) == Iter(minimum(heap, root[m]), m)
End(m) == Iter(Null, m)
Find(m, k) == Iter(findNode(heap, root[m], k), m)

ItBegin(m) ==
  /\ pc = "idle" /\ alive[m]
  /\ it' = Begin(m)
  /\ ret' = Ret("begin", "none", FALSE)
  /\ UNCHANGED <<heap, root, tree_size, alive, pc>>

ItEnd(m) ==
  /\ pc = "idle" /\ alive[m]
  /\ it' = End(m)
  /\ ret' = Ret("end", "none", FALSE)
  /\ UNCHANGED <<heap, root, tree_size, alive, pc>>

ItFind(m, k) ==
  /\ pc = "idle" /\ alive[m]
  /\ it' = Find(m, k)
  /\ ret' = Ret("find", "none", FALSE)
  /\ UNCHANGED <<heap, root, tree_size, alive, pc>>

\* ++it (postfix = FALSE) and it++ (postfix = TRUE: temp = *this; ++(*this);
\* return temp, so the iterator object itself changes as under ++it).  The
\* caller does not use a dangling iterator.
ItInc(postfix) ==
  /\ pc = "idle"
  /\ it \in ValidIters
  /\ IF it.node = Null
     THEN /\ ret' = Ret(IF postfix THEN "it++" ELSE "++it", "invalid_iterator", FALSE)
          /\ UNCHANGED it
     ELSE /\ it' = Iter(IncNode(heap, it.node), it.container)
          /\ ret' = Ret(IF postfix THEN "it++" ELSE "++it", "none", FALSE)
  /\ UNCHANGED <<heap, root, tree_size, alive, pc>>

\* --it and it--
ItDec(postfix) ==
  /\ pc = "idle"
  /\ it \in ValidIters
  /\ it' = Iter(DecIter(heap, it).node, it.container)
  /\ ret' = Ret(IF postfix THEN "it--" ELSE "--it",
                IF DecIter(heap, it).threw THEN "invalid_iterator" ELSE "none", FALSE)
  /\ UNCHANGED <<heap, root, tree_size, alive, pc>>

\* operator* and operator-> : invalid_iterator on a null node, else the
\* node's data (first, second).
DerefUnchecked(h, i) == [threw |-> FALSE, first |-> 0, second |-> FALSE]
Deref(h, i) ==
  IF i.node = Null
  THEN [threw |-> TRUE, first |-> 0, second |-> FALSE]
  ELSE [threw |-> FALSE, first |-> h[i.node].key, second |-> h[i.node].val]

\* (*it).second (arrow = FALSE) and it->second (arrow = TRUE); ret.ok is the
\* bool that was read.
ItDeref(arrow) ==
  /\ pc = "idle"
  /\ it \in ValidIters
  /\ ret' = Ret(IF arrow THEN "it->" ELSE "*it",
                IF Deref(heap, it).threw THEN "invalid_iterator" ELSE "none",
                Deref(heap, it).second)
  /\ UNCHANGED <<heap, root, tree_size, alive, it, pc>>

\* ------------------------------------------------------------------------
\* clearTree, copyTree, clear, copy construction, assignment, destruction

\* delete node
FreeOne(h, node) == [h EXCEPT ![node] = FreeNode]

\* clearTree(node): post-order delete of the subtree.
RECURSIVE ClearLoop(_, _, _)
ClearLoop(h, node, fuel) ==
  IF node = Null \/ fuel = 0 THEN h
  ELSE FreeOne(ClearLoop(ClearLoop(h, h[node].left, fuel - 1),
                         h[node].right, fuel - 1),
               node)

clearTree(h, node) == ClearLoop(h, node, 2 * MaxKey)

\* The addresses clearTree(node) passes to delete, in the order of the calls:
\* the left subtree's, the right subtree's, then node.
RECURSIVE DeleteOrder(_, _, _)
DeleteOrder(h, node, fuel) ==
  IF node = Null \/ fuel = 0 THEN <<>>
  ELSE DeleteOrder(h, h[node].left, fuel - 1)
         \o DeleteOrder(h, h[node].right, fuel - 1) \o <<node>>

\* The address copyTree(node, parent) returns when it builds map dst's copy.
CopyAddrShared(h, dst, node) == node
CopyAddr(h, dst, node) == IF node = Null THEN Null ELSE NewAddr(dst, h[node].key)

\* Node *newNode = new Node(node->data, parent); newNode->color = node->color;
CopyNode(h, dst, node, parent) ==
  [h EXCEPT ![CopyAddr(h, dst, node)] =
     [NewNode(h[node].key, h[node].val, parent) EXCEPT !.color = h[node].color]]

\* newNode->left = ...; newNode->right = ...;  (the values copyTree returned)
CopyLink(h, dst, node, f) ==
  [h EXCEPT ![CopyAddr(h, dst, node)][f] = CopyAddr(h, dst, h[node][f])]

\* copyTree(node, parent): pre-order clone of the subtree into fresh nodes.
RECURSIVE CopyLoop(_, _, _, _, _)
CopyLoop(h, dst, node, parent, fuel) ==
  IF node = Null \/ fuel = 0 THEN h
  ELSE CopyLink(
         CopyLoop(
           CopyLink(
             CopyLoop(CopyNode(h, dst, node, parent), dst, h[node].left,
                      CopyAddr(h, dst, node), fuel - 1),
             dst, node, "left"),
           dst, h[node].right, CopyAddr(h, dst, node), fuel - 1),
         dst, node, "right")

copyTree(h, dst, node, parent) == CopyLoop(h, dst, node, parent, 2 * MaxKey)

\* void clear()
Clear(m) ==
  /\ pc = "idle"
  /\ alive[m]
  /\ heap' = clearTree(heap, root[m])
  /\ root' = [root EXCEPT ![m] = Null]
  /\ tree_size' = [tree_size EXCEPT ![m] = 0]
  /\ ret' = Ret("clear", "none", FALSE)
  /\ UNCHANGED <<alive, it, pc>>

\* map(const map &other): a new map object dst is built from src.
CopyConstruct(dst, src) ==
  /\ pc = "idle"
  /\ ~alive[dst]
  /\ alive[src]
  /\ heap' = copyTree(heap, dst, root[src], Null)
  /\ root' = [root EXCEPT ![dst] = CopyAddr(heap, dst, root[src])]
  /\ tree_size' = [tree_size EXCEPT ![dst] = tree_size[src]]
  /\ alive' = [alive EXCEPT ![dst] = TRUE]
  /\ ret' = Ret("copy", "none", FALSE)
  /\ UNCHANGED <<it, pc>>

\* if (this != &other)
NotSelfIgnored(dst, src) == TRUE
NotSelf(dst, src) == dst # src

\* map &operator=(const map &other)
Assign(dst, src) ==
  /\ pc = "idle"
  /\ alive[dst]
  /\ alive[src]
  /\ IF NotSelf(dst, src)
     THEN /\ heap' = copyTree(clearTree(heap, root[dst]), dst, root[src], Null)
          /\ root' = [root EXCEPT ![dst] = CopyAddr(heap, dst, root[src])]
          /\ tree_size' = [tree_size EXCEPT ![dst] = tree_size[src]]
     ELSE UNCHANGED <<heap, root, tree_size>>
  /\ ret' = Ret("assign", "none", FALSE)
  /\ UNCHANGED <<alive, it, pc>>

\* ~map()
Destroy(m) ==
  /\ pc = "idle"
  /\ alive[m]
  /\ heap' = clearTree(heap, root[m])
  /\ root' = [root EXCEPT ![m] = Null]
  /\ tree_size' = [tree_size EXCEPT ![m] = 0]
  /\ alive' = [alive EXCEPT ![m] = FALSE]
  /\ ret' = Ret("destroy", "none", FALSE)
  /\ UNCHANGED <<it, pc>>

\* ------------------------------------------------------------------------
\* Initial state: two default-constructed maps, map() : root(nullptr),
\* tree_size(0); the caller holds a default-constructed iterator.
Init ==
  /\ heap = [a \in Addrs |-> FreeNode]
  /\ root = [m \in Maps |-> Null]
  /\ tree_size = [m \in Maps |-> 0]
  /\ alive = [m \in Maps |-> TRUE]
  /\ it = Iter(Null, Null)
  /\ ret = Ret("construct", "none", FALSE)
  /\ pc = "idle"

\* Only insert and mutable operator[] on one map.
NextInsert ==
  \/ \E k \in Keys, v \in Vals : Insert(1, k, v)
  \/ \E k \in Keys : Subscript(1, k)

SpecInsert == Init /\ [][NextInsert]_vars

\* One map under insert, operator[] and erase, with the caller's iterator
\* moving over it; map 2 stays empty and lends its end().
Next ==
  \/ \E k \in Keys, v \in Vals : Insert(1, k, v)
  \/ \E k \in Keys : Subscript(1, k)
  \/ \E pos \in ValidIters : Erase(1, pos)
  \/ \E m \in Maps : ItBegin(m)
  \/ \E m \in Maps : ItEnd(m)
  \/ \E k \in Keys : ItFind(1, k)
  \/ \E postfix \in BOOLEAN : ItInc(postfix)
  \/ \E postfix \in BOOLEAN : ItDec(postfix)

Spec == Init /\ [][Next]_vars

\* Two maps filled through operator[] and emptied through erase, where erase
\* is handed any iterator value: its own, the other map's, or a
\* default-constructed one.
NextErase ==
  \/ \E m \in Maps, k \in Keys : Subscript(m, k)
  \/ \E m \in Maps : \E pos \in ValidIters : Erase(m, pos)

SpecErase == Init /\ [][NextErase]_vars

\* Both map objects under every public modifier; map 2 is the one that is
\* destroyed and copy-constructed again.
NextAll ==
  \/ \E m \in Maps, k \in CopyKeys, v \in Vals : Insert(m, k, v)
  \/ \E m \in Maps, k \in CopyKeys : Subscript(m, k)
  \/ \E m \in Maps : \E pos \in ValidIters : Erase(m, pos)
  \/ \E m \in Maps : Clear(m)
  \/ CopyConstruct(2, 1)
  \/ \E dst \in Maps, src \in Maps : Assign(dst, src)
  \/ Destroy(2)

SpecAll == Init /\ [][NextAll]_vars

\* Both map objects with up to MaxKey entries each, all of value T(), under
\* operator[], erase(find(k)), clear, copy construction, assignment and
\* destruction.
NextShape ==
  \/ \E m \in Maps, k \in Keys : Subscript(m, k)
  \/ \E m \in Maps, k \in Keys : Erase(m, Find(m, k))
  \/ \E m \in Maps : Clear(m)
  \/ CopyConstruct(2, 1)
  \/ \E dst \in Maps, src \in Maps : Assign(dst, src)
  \/ Destroy(2)

SpecShape == Init /\ [][NextShape]_vars

\* One map grown to 2 * MaxKey entries through operator[] and shrunk through
\* erase(find(k)); the stored values all stay T().
NextTall ==
  \/ \E k \in TallKeys : Subscript(1, k)
  \/ \E k \in TallKeys : Erase(1, Find(1, k))

SpecTall == Init /\ [][NextTall]_vars

\* One map under insert and erase(find(k)), and the caller's iterator moved
\* over it and dereferenced, at every position including end() and the
\* default-constructed iterator; map 2 stays empty.
NextIter ==
  \/ \E k \in Keys, v \in Vals : Insert(1, k, v)
  \/ \E k \in Keys : Erase(1, Find(1, k))
  \/ \E m \in Maps : ItBegin(m)
  \/ \E m \in Maps : ItEnd(m)
  \/ \E k \in Keys : ItFind(1, k)
  \/ \E postfix \in BOOLEAN : ItInc(postfix)
  \/ \E postfix \in BOOLEAN : ItDec(postfix)
  \/ \E arrow \in BOOLEAN : ItDeref(arrow)

SpecIter == Init /\ [][NextIter]_vars

\* One map under every way of storing, reading, overwriting and removing an
\* entry by key.
NextAccess ==
  \/ \E k \in Keys, v \in Vals : Insert(1, k, v)
  \/ \E k \in Keys : Subscript(1, k)
  \/ \E k \in Keys, v \in Vals : SubscriptAssign(1, k, v)
  \/ \E k \in Keys, v \in Vals : AtAssign(1, k, v)
  \/ \E k \in Keys : At(1, k)
  \/ \E k \in Keys : ConstSubscript(1, k)
  \/ \E k \in Keys : Count(1, k)
  \/ \E k \in Keys : Erase(1, Find(1, k))

SpecAccess == Init /\ [][NextAccess]_vars

\* Map 1 is changed by insert, m[k] = v, erase(find(k)) and clear; map 2 is
\* copy-constructed from it, assigned from it and to it, and destroyed.  Map
\* 1 is thus changed both as the source of an earlier copy and as a copy.
NextCopy ==
  \/ \E k \in CopyKeys, v \in Vals : Insert(1, k, v)
  \/ \E k \in CopyKeys, v \in Vals : SubscriptAssign(1, k, v)
  \/ \E k \in CopyKeys : Erase(1, Find(1, k))
  \/ Clear(1)
  \/ CopyConstruct(2, 1)
  \/ \E dst \in Maps, src \in Maps : Assign(dst, src)
  \/ Destroy(2)

SpecCopy == Init /\ [][NextCopy]_vars

\* ------------------------------------------------------------------------
\* What the properties are stated with

\* The process is between two public calls: the last call returned or threw.
Returned == pc = "idle"

\* The nodes met by ++ from begin() until the iterator is end().  The next
\* node is bound to x before the walk goes on from it.
RECURSIVE WalkFrom(_, _, _)
WalkFrom(h, n, fuel) ==
  IF n = Null \/ fuel = 0 THEN <<>>
  ELSE <<n>> \o (CHOOSE s \in {WalkFrom(h, x, fuel - 1) : x \in {IncNode(h, n)}} : TRUE)

Traversal(m) == WalkFrom(heap, Begin(m).node, 2 * MaxKey + 1)
\* it->first, and *it, at each position t[i] of a traversal t.
KeysAt(h, t) == [i \in 1..Len(t) |-> h[t[i]].key]
EntriesAt(h, t) == [i \in 1..Len(t) |-> <<h[t[i]].key, h[t[i]].val>>]

KeysInOrder(m) == KeysAt(heap, Traversal(m))
Entries(m) == EntriesAt(heap, Traversal(m))

StrictlyIncreasing(s) == \A i \in 1..(Len(s) - 1) : s[i] < s[i + 1]

WithoutKey(s, k) == LET Keep(e) == e[1] # k IN SelectSeq(s, Keep)

SubtreeKeys(h, n) == {h[x].key : x \in Reach(h, n, 2 * MaxKey)}

\* Section 3, invariant 1: binary-search-tree order.
BSTOrder(m) ==
  \A n \in NodesOf(m) :
    /\ \A k \in SubtreeKeys(heap, heap[n].left) : k < heap[n].key
    /\ \A k \in SubtreeKeys(heap, heap[n].right) : heap[n].key < k

\* Section 3, invariant 2: no two nodes hold equivalent keys.
UniqueKeys(m) ==
  \A a \in NodesOf(m), b \in NodesOf(m) : a # b => heap[a].key # heap[b].key

\* The numbers of black nodes on the paths from n down to a null child.
RECURSIVE BlackCounts(_, _, _)
BlackCounts(h, n, fuel) ==
  IF n = Null \/ fuel = 0 THEN {0}
  ELSE {b + (IF h[n].color THEN 0 ELSE 1) :
          b \in UNION {BlackCounts(h, x, fuel - 1) : x \in {h[n].left, h[n].right}}}

\* Section 3, invariant 3: red-black balance.
RedBlack(m) ==
  /\ root[m] # Null => ~heap[root[m]].color
  /\ \A n \in NodesOf(m) :
       heap[n].color => IsBlack(heap, heap[n].left) /\ IsBlack(heap, heap[n].right)
  /\ \A n \in NodesOf(m) : Cardinality(BlackCounts(heap, n, 2 * MaxKey)) = 1

\* The number of nodes hanging under n, each counted once per path to it.
RECURSIVE CountFrom(_, _, _)
CountFrom(h, n, fuel) ==
  IF n = Null \/ fuel = 0 THEN 0
  ELSE 1 + CountFrom(h, h[n].left, fuel - 1) + CountFrom(h, h[n].right, fuel - 1)

\* Section 3, invariant 4.
SizeIsCount(m) == tree_size[m] = CountFrom(heap, root[m], 2 * MaxKey)

Section3(m) == BSTOrder(m) /\ UniqueKeys(m) /\ RedBlack(m) /\ SizeIsCount(m)

\* The node of map m holding key k, or Null.
NodeOfKey(m, k) ==
  IF \E n \in NodesOf(m) : heap[n].key = k
  THEN CHOOSE n \in NodesOf(m) : heap[n].key = k
  ELSE Null

\* The in-order neighbours of node n of map m, by key.
SuccOf(m, n) ==
  LET later == {x \in NodesOf(m) : heap[n].key < heap[x].key}
  IN IF later = {} THEN Null
     ELSE CHOOSE x \in later : \A y \in later : heap[x].key <= heap[y].key

PredOf(m, n) ==
  LET earlier == {x \in NodesOf(m) : heap[x].key < heap[n].key}
  IN IF earlier = {} THEN Null
     ELSE CHOOSE x \in earlier : \A y \in earlier : heap[y].key <= heap[x].key

\* ++ and -- from every node of m follow m's order of keys.
NavigationInOrder(m) ==
  \A n \in NodesOf(m) :
    /\ IncNode(heap, n) = SuccOf(m, n)
    /\ DecNode(heap, Iter(n, m)) = PredOf(m, n)

\* ------------------------------------------------------------------------
\* C1: erase(it) on an iterator to a live node of the map completes, lowers
\* size() by exactly 1, removes exactly that key from the begin-to-end
\* traversal (all other entries stay), and the invariants of section 3 hold
\* afterwards.
C1_EraseCompletes ==
  [][ret'.op = "erase" =>
       \A pos \in ValidIters :
         (pos.container = 1 /\ pos.node # Null /\ Erase(1, pos))
           => /\ pc' = "idle"
              /\ tree_size'[1] = tree_size[1] - 1
              /\ Entries(1)' = WithoutKey(Entries(1), heap[pos.node].key)
              /\ Section3(1)']_vars

\* C2: after any sequence of insert calls the traversal from begin() to
\* end() visits strictly increasing keys, and every node's left subtree holds
\* smaller keys and its right subtree larger keys.
C2_InsertKeepsOrder ==
  /\ StrictlyIncreasing(KeysInOrder(1))
  /\ BSTOrder(1)
  /\ Len(Traversal(1)) = Cardinality(NodesOf(1))

\* A duplicate insert has been refused on the full map.
C2_Witness == tree_size[1] = MaxKey /\ ret.op = "insert" /\ ~ret.ok

\* C3: after every insert or operator[] from the empty map, the root is
\* black, no red node has a red child and all paths from a node down to a
\* null child hold the same number of black nodes.
C3_InsertKeepsRedBlack == Returned /\ RedBlack(1)

\* operator[] has inserted the fourth key (the red-uncle recolouring ran).
C3_Witness == tree_size[1] >= 4 /\ ret.op = "subscript" /\ ret.ok

\* C4: between public calls, size() is the number of nodes reachable from
\* root and the number of ++ steps from begin() to end(), for each map.
C4_SizeIsNodeCount ==
  Returned =>
    \A m \in Maps : SizeIsCount(m) /\ tree_size[m] = Len(Traversal(m))

\* An erase has returned while both maps hold entries.
C4_Witness ==
  /\ ret.op = "erase" /\ ret.threw = "none" /\ Returned
  /\ tree_size[1] >= 2 /\ tree_size[2] >= 2

\* C5: insert of a key that is already stored returns (iterator to the
\* stored entry, false) and changes no size, key, value, colour or link.
C5_DuplicateInsertIsNoOp ==
  [][\A k \in Keys, v \in Vals :
       (ret'.op = "insert" /\ NodeOfKey(1, k) # Null /\ Insert(1, k, v))
         => /\ ~ret'.ok
            /\ ~InsertTree(heap, root[1], 1, k, v).inserted
            /\ InsertTree(heap, root[1], 1, k, v).node = NodeOfKey(1, k)
            /\ heap' = heap /\ root' = root /\ tree_size' = tree_size]_vars

\* A duplicate insert has been refused on a map of three or more entries.
C5_Witness == ret.op = "insert" /\ ~ret.ok /\ tree_size[1] >= 3

\* Every node of map 1 other than z is still a node of it after the step,
\* with its key and value, and navigation follows the new order.
SurvivesExcept(z) ==
  LET after == NodesOf(1)'
  IN /\ \A n \in NodesOf(1) \ {z} :
          /\ n \in after
          /\ heap'[n].live
          /\ heap'[n].key = heap[n].key
          /\ heap'[n].val = heap[n].val
     /\ z # Null => z \notin after
     /\ NavigationInOrder(1)'

\* C6: across erase(pos) every node but the erased one stays a live node of
\* the map with its key and value, and ++ and -- from it follow the new
\* in-order sequence; the erased node leaves the map.  Across insert and
\* operator[] every node stays, likewise.
C6_OtherIteratorsSurvive ==
  [][/\ ret'.op = "erase" =>
          \A pos \in ValidIters :
            (pos.container = 1 /\ pos.node # Null /\ Erase(1, pos))
              => SurvivesExcept(pos.node)
     /\ ret'.op \in {"insert", "subscript"} => SurvivesExcept(Null)]_vars

\* An erase has returned while the caller's iterator references another node.
C6_Witness ==
  /\ ret.op = "erase" /\ ret.threw = "none" /\ Returned
  /\ it.container = 1 /\ it.node \in NodesOf(1)
  /\ tree_size[1] >= 2

\* C7: a call that throws leaves the iterator and the map as they were; in
\* particular --it at begin() throws and it still equals begin().
C7_ThrowLeavesStateAlone ==
  [][ret'.threw # "none"
       => it' = it /\ heap' = heap /\ root' = root /\ tree_size' = tree_size]_vars

\* C8: erase(pos) throws invalid_iterator and changes nothing when pos is
\* this map's end(), an iterator of the other map, or default-constructed.
C8_EraseRejectsForeign ==
  [][ret'.op = "erase" =>
       \A m \in Maps : \A pos \in ValidIters :
         ((pos.node = Null \/ pos.container # m) /\ Erase(m, pos))
           => /\ ret'.threw = "invalid_iterator"
              /\ heap' = heap /\ root' = root /\ tree_size' = tree_size]_vars

\* An erase has thrown while both maps hold entries.
C8_Witness ==
  /\ ret.op = "erase" /\ ret.threw = "invalid_iterator"
  /\ tree_size[1] >= 1 /\ tree_size[2] >= 1

\* a and b belong to the same map and denote the same entry of it.
SameEntry(a, b) ==
  /\ a.container = b.container
  /\ \/ a.node = Null /\ b.node = Null
     \/ /\ a.node # Null /\ b.node # Null
        /\ heap[a.node].key = heap[b.node].key

\* C9: two iterators compare equal exactly when they come from the same map
\* and reference the same entry of it (or are both past the end).
C9_EqualityIsIdentity ==
  \A a \in ValidIters, b \in ValidIters : IterEq(a, b) <=> SameEntry(a, b)

\* Map 2 is a copy that holds a key of map 1.
C9_Witness ==
  /\ ret.op \in {"copy", "assign"}
  /\ \E k \in CopyKeys : Find(1, k).node # Null /\ Find(2, k).node # Null

\* C10: from every node, ++ then -- comes back to it (also when ++ reaches
\* end()), and from every node but the first, -- then ++ comes back.
C10_IncDecRoundTrip ==
  \A n \in NodesOf(1) :
    /\ ~DecIter(heap, Iter(IncNode(heap, n), 1)).threw
    /\ IterEq(Iter(DecIter(heap, Iter(IncNode(heap, n), 1)).node, 1), Iter(n, 1))
    /\ n # Begin(1).node =>
         /\ ~DecIter(heap, Iter(n, 1)).threw
         /\ DecIter(heap, Iter(n, 1)).node # Null
         /\ IncNode(heap, DecIter(heap, Iter(n, 1)).node) = n

\* ++it has just moved the caller's iterator from the last entry to end().
C10_Witness ==
  /\ ret.op = "++it" /\ ret.threw = "none"
  /\ it = End(1) /\ tree_size[1] >= 3

\* The step leaves map m as it was: root, size, and every field of every
\* node of it.
Frame(m) ==
  /\ root'[m] = root[m]
  /\ tree_size'[m] = tree_size[m]
  /\ \A n \in NodesOf(m) : heap'[n] = heap[n]

\* The subtrees under a and b hold the same keys, values and colours in the
\* same shape.
RECURSIVE SameShape(_, _, _, _)
SameShape(h, a, b, fuel) ==
  IF a = Null \/ b = Null \/ fuel = 0 THEN a = b
  ELSE /\ h[a].key = h[b].key /\ h[a].val = h[b].val /\ h[a].color = h[b].color
       /\ SameShape(h, h[a].left, h[b].left, fuel - 1)
       /\ SameShape(h, h[a].right, h[b].right, fuel - 1)

Clone(dst, src) ==
  /\ SameShape(heap, root[dst], root[src], 2 * MaxKey)
  /\ tree_size[dst] = tree_size[src]

NoSharedNode == NodesOf(1) \cap NodesOf(2) = {}

\* The step builds map dst as a copy of another map src.
CopyInto(dst, src) ==
  /\ dst # src
  /\ \/ ret'.op = "copy" /\ CopyConstruct(dst, src)
     \/ ret'.op = "assign" /\ Assign(dst, src)

\* C11: a copy construction or assignment a = b makes a hold b's keys,
\* values, colours and shape in nodes of its own and leaves b as it was; the
\* two maps never share a node; and every later insert, value write, erase
\* or clear on map 1, be it the source or the target of the copy, leaves map
\* 2's root, size and nodes as they were.
C11_CloneIsIndependent ==
  [][/\ NoSharedNode'
     /\ \A dst \in Maps, src \in Maps :
          CopyInto(dst, src) => Clone(dst, src)' /\ Frame(src)
     /\ ret'.op \in {"insert", "subscript_write", "erase", "clear"} => Frame(2)]_vars

\* Map 1 was changed while map 2, a copy made earlier, holds three entries.
C11_Witness ==
  /\ ret.op \in {"insert", "subscript_write", "erase", "clear"}
  /\ ret.threw = "none"
  /\ alive[2] /\ tree_size[2] = MaxCopyKey
  /\ tree_size[1] < MaxCopyKey
  /\ \E k \in CopyKeys : count(heap, root[1], k) = 1 /\ count(heap, root[2], k) = 1
                          /\ heap[Find(1, k).node].val # heap[Find(2, k).node].val

\* What at(k) reads on map m: the stored value, or nothing when it throws.
Stored(m, k) ==
  IF AtRef(heap, root[m], k) = Null THEN {}
  ELSE {heap[AtRef(heap, root[m], k)].val}

\* find(k), at(k) and operator[](k) all lead to the one node of map 1 that
\* holds k, and the iterator of find(k) dereferences to (k, stored value).
Agree ==
  \A n \in NodesOf(1) :
    /\ Find(1, heap[n].key).node = n
    /\ Deref(heap, Find(1, heap[n].key)) =
         [threw |-> FALSE, first |-> heap[n].key, second |-> heap[n].val]
    /\ AtRef(heap, root[1], heap[n].key) = n
    /\ SubscriptRef(heap, root[1], 1, heap[n].key) = n

\* The step stores v under k: an insert of a new key k, or a write of v
\* through at(k) or operator[](k).
Stores(k, v) ==
  \/ ret'.op = "insert" /\ ret'.ok /\ Insert(1, k, v)
  \/ ret'.op = "subscript" /\ ret'.ok /\ v = DefaultVal /\ Subscript(1, k)
  \/ ret'.op = "subscript_write" /\ SubscriptAssign(1, k, v)
  \/ ret'.op = "at_write" /\ ret'.threw = "none" /\ AtAssign(1, k, v)

\* The step erases key k.
Erases(k) == ret'.op = "erase" /\ ret'.threw = "none" /\ Erase(1, Find(1, k))

\* C12: once k is stored with v, find(k) dereferences to (k, v) and at(k) and
\* operator[](k) refer to the same stored value; a write through either is
\* read through the other and through the iterator; and every call that
\* neither erases nor overwrites k, whatever other keys it inserts or
\* erases, leaves this as it is.
C12_LookupRoundTrip ==
  [][/\ Agree'
     /\ \A k \in Keys :
          /\ \A v \in Vals : Stores(k, v) => Stored(1, k)' = {v}
          /\ (Stored(1, k) # {} /\ ~Erases(k) /\ \A v \in Vals : ~Stores(k, v))
               => Stored(1, k)' = Stored(1, k)]_vars

\* A value was overwritten through at() in a map of four entries, some of
\* them inserted after an erase.
C12_Witness ==
  /\ ret.op = "at_write" /\ ret.threw = "none" /\ ret.ok
  /\ tree_size[1] = MaxKey
  /\ \E k \in Keys : Stored(1, k) = {TRUE}
  /\ \E k \in Keys : Stored(1, k) = {FALSE}

\* C13: mutable operator[](k) always returns normally.  On a stored key it
\* refers to the existing value and changes neither nodes, root nor size; on
\* an absent key the traversal afterwards is the old one plus the one entry
\* (k, T()), size() is one more, the invariants of section 3 hold, and at(k)
\* succeeds and reads T().
C13_SubscriptAlwaysSucceeds ==
  [][ret'.op = "subscript" =>
       \A k \in Keys :
         Subscript(1, k)
           => /\ pc' = "idle" /\ ret'.threw = "none"
              /\ IF Stored(1, k) # {}
                 THEN /\ heap' = heap /\ root' = root /\ tree_size' = tree_size
                      /\ SubscriptRef(heap, root[1], 1, k) = NodeOfKey(1, k)
                 ELSE /\ tree_size'[1] = tree_size[1] + 1
                      /\ WithoutKey(Entries(1)', k) = Entries(1)
                      /\ Len(Entries(1)') = Len(Entries(1)) + 1
                      /\ Section3(1)'
                      /\ AtRef(heap', root'[1], k) # Null
                      /\ Stored(1, k)' = {DefaultVal}]_vars

\* operator[] has just inserted the last missing key into a map that holds a
\* value other than T().
C13_Witness ==
  /\ ret.op = "subscript" /\ ret.ok /\ ret.threw = "none"
  /\ tree_size[1] = MaxKey
  /\ \E k \in Keys : Stored(1, k) = {TRUE}

\* C14: at(k) and the const operator[](k) change nothing in the map; they
\* throw index_out_of_bound when no node holds k, and otherwise return the
\* value stored with k.
C14_AtChecksBounds ==
  [][\A k \in Keys :
       (At(1, k) \/ ConstSubscript(1, k))
         => /\ heap' = heap /\ root' = root /\ tree_size' = tree_size
            /\ IF NodeOfKey(1, k) = Null
               THEN ret'.threw = "index_out_of_bound"
               ELSE ret'.threw = "none" /\ ret'.ok = heap[NodeOfKey(1, k)].val]_vars

\* The const operator[] has thrown on a key that was erased from a map that
\* still holds the other keys.
C14_Witness ==
  /\ ret.op = "const_subscript" /\ ret.threw = "index_out_of_bound"
  /\ tree_size[1] = MaxKey - 1

\* C15: ++ (prefix and postfix) on an iterator whose node is null throws
\* invalid_iterator and leaves the iterator as it was, and from the node of
\* the largest key it returns normally with the iterator equal to end(); *
\* and -> throw invalid_iterator exactly on a null node and otherwise read
\* the node's value; -- on end() of an empty map, or on a default-constructed
\* iterator, throws invalid_iterator.
C15_EndIsGuarded ==
  [][/\ ret'.op \in {"++it", "it++"} =>
          IF it.node = Null
          THEN ret'.threw = "invalid_iterator" /\ it' = it
          ELSE /\ ret'.threw = "none"
               /\ SuccOf(it.container, it.node) = Null
                    => IterEq(it', End(it.container))
     /\ ret'.op \in {"*it", "it->"} =>
          IF it.node = Null
          THEN ret'.threw = "invalid_iterator"
          ELSE ret'.threw = "none" /\ ret'.ok = heap[it.node].val
     /\ (/\ ret'.op \in {"--it", "it--"}
         /\ it.node = Null
         /\ (it.container = Null \/ tree_size[it.container] = 0))
          => ret'.threw = "invalid_iterator"]_vars

\* A dereference has thrown on end() of a map of three or more entries.
C15_Witness ==
  /\ ret.op \in {"*it", "it->"} /\ ret.threw = "invalid_iterator"
  /\ it = End(1) /\ tree_size[1] >= 3

\* The keys for which count() returns 1.
Counted == {k \in Keys : count(heap, root[1], k) = 1}

\* The step is a call that stores key k if it is not stored yet.
Adds(k) ==
  \/ ret'.op = "insert" /\ \E v \in Vals : Insert(1, k, v)
  \/ ret'.op = "subscript" /\ Subscript(1, k)
  \/ ret'.op = "subscript_write" /\ \E v \in Vals : SubscriptAssign(1, k, v)

\* count and find agree with the nodes of the map: count(k) is the number
\* of nodes holding k, find(k) is the iterator to that node when there is
\* one and equals end() when there is none.
CountMatchesNodes ==
  \A k \in Keys :
    /\ count(heap, root[1], k) = Cardinality({n \in NodesOf(1) : heap[n].key = k})
    /\ count(heap, root[1], k) \in {0, 1}
    /\ IF count(heap, root[1], k) = 1
       THEN Find(1, k) = Iter(NodeOfKey(1, k), 1) /\ Find(1, k).node # Null
       ELSE IterEq(Find(1, k), End(1))

\* C16: the keys counted 1 start empty, gain k with every call that inserts
\* k, lose k with every erase of k and change with no other call, so that
\* count(k) is 1 exactly for the keys inserted and not erased since; count is
\* never more than 1 and is what the call returns; and find(k) is the
\* iterator to the entry of k, or equal to end() when count(k) is 0.
C16_CountAndFind ==
  [][/\ \A k \in Keys :
          k \in Counted' <=> (Adds(k) \/ (k \in Counted /\ ~Erases(k)))
     /\ CountMatchesNodes'
     /\ ret'.op = "count" => \A k \in Keys : Count(1, k) => (ret'.ok <=> k \in Counted)]_vars

\* count has returned 0 for a key that was erased, in a map that still
\* holds the other keys.
C16_Witness ==
  /\ ret.op = "count" /\ ~ret.ok
  /\ Cardinality(Counted) = MaxKey - 1 /\ tree_size[1] = MaxKey - 1

\* The sequence names no address twice.
NoRepeat(s) == \A i \in 1..Len(s), j \in 1..Len(s) : i # j => s[i] # s[j]

\* What clearTree on dst's tree does inside dst = src: it deletes every node
\* of dst, each once, and no node of src, whose nodes stay as they were.
FreesOwnOnce(dst, src) ==
  /\ NoRepeat(DeleteOrder(heap, root[dst], 2 * MaxKey))
  /\ {DeleteOrder(heap, root[dst], 2 * MaxKey)[i] :
        i \in 1..Len(DeleteOrder(heap, root[dst], 2 * MaxKey))} = NodesOf(dst)
  /\ \A n \in NodesOf(dst) : ~clearTree(heap, root[dst])[n].live
  /\ \A n \in NodesOf(src) :
       /\ n \notin NodesOf(dst)
       /\ clearTree(heap, root[dst])[n] = heap[n]
       /\ heap'[n] = heap[n] /\ heap'[n].live

\* C17: m = m changes no field of no node, neither root nor size, frees
\* and allocates nothing, so every iterator into m still references the
\* same live entry; a = b between distinct maps deletes each node a owned
\* exactly once and none of b's nodes.
C17_SelfAssignmentIsNoOp ==
  [][ret'.op = "assign" =>
       \A dst \in Maps, src \in Maps :
         Assign(dst, src)
           => IF dst = src
              THEN /\ heap' = heap /\ root' = root /\ tree_size' = tree_size
                   /\ ValidIters' = ValidIters
                   /\ \A n \in NodesOf(dst) : heap'[n].live
              ELSE FreesOwnOnce(dst, src)]_vars

\* A self-assignment was made on a map of three entries: the last call was
\* an assignment and the two maps differ in size, which no a = b between
\* distinct maps leaves behind.
C17_Witness ==
  /\ ret.op = "assign"
  /\ tree_size[1] = MaxCopyKey /\ tree_size[2] \in 1..(MaxCopyKey - 1)

\* The number of nodes on the longest path from n down to a null child.
RECURSIVE Height(_, _, _)
Height(h, n, fuel) ==
  IF n = Null \/ fuel = 0 THEN 0
  ELSE 1 + CHOOSE a \in {Height(h, x, fuel - 1) : x \in {h[n].left, h[n].right}} :
             \A b \in {Height(h, x, fuel - 1) : x \in {h[n].left, h[n].right}} : b <= a

\* C18: between public calls, after any insert, operator[] and erase calls,
\* the height h of the tree and size() satisfy 2^h <= (size() + 1)^2.
C18_HeightIsLogarithmic ==
  Returned =>
    2 ^ Height(heap, root[1], 2 * MaxKey) <= (tree_size[1] + 1) * (tree_size[1] + 1)

\* An erase has returned and left six entries or more; from six entries on
\* a chain would break the bound.
C18_Witness ==
  /\ Returned /\ ret.op = "erase" /\ ret.threw = "none"
  /\ tree_size[1] >= MaxKey + 2
  /\ Height(heap, root[1], 2 * MaxKey) >= 4

\* The tree insert hands to fixInsert when it stores the absent key k in map
\* 1: the new red node attached under the parent the descent found, and z
\* on the new node.
FixInsertStart(k) ==
  SetZ(InsertAttach(Tree(heap, root[1], Null), NewAddr(1, k), k, DefaultVal,
                    InsertDescend(heap, Null, root[1], k, 2 * MaxKey).parent),
       NewAddr(1, k))

\* The number of parent links from n up to the root.
RECURSIVE Depth(_, _, _)
Depth(h, n, fuel) ==
  IF n = Null \/ h[n].parent = Null \/ fuel = 0 THEN 0
  ELSE 1 + Depth(h, h[n].parent, fuel - 1)

\* The number of iterations the loop of fixInsert makes from t.
RECURSIVE Iterations(_, _)
Iterations(t, fuel) ==
  IF fuel = 0 \/ FixInsertCondTraps(t) \/ ~FixInsertCond(t) THEN 0
  ELSE 1 + (CHOOSE n \in {Iterations(u, fuel - 1) : u \in {FixInsertBody(t)}} : TRUE)

\* z->parent->parent and the uncle of z in tree t.
Grandparent(t) == t.h[t.h[t.z].parent].parent
Uncle(t) ==
  IF t.h[t.z].parent = t.h[Grandparent(t)].left
  THEN t.h[Grandparent(t)].right ELSE t.h[Grandparent(t)].left

\* One iteration of the loop, from t to u: the grandparent exists; with a
\* red uncle z moves to the grandparent, two levels up; otherwise the
\* iteration ends with a black parent above z, and the loop test fails.
IterationOk(t, u) ==
  /\ Grandparent(t) # Null
  /\ ~u.bad
  /\ IF UncleIsRed(t.h, Uncle(t))
     THEN /\ u.z = Grandparent(t)
          /\ Depth(u.h, u.z, 2 * MaxKey) = Depth(t.h, t.z, 2 * MaxKey) - 2
     ELSE /\ u.h[u.z].parent # Null
          /\ ~u.h[u.h[u.z].parent].color
          /\ ~FixInsertCond(u) /\ ~FixInsertCondTraps(u)

\* The loop of fixInsert from t: the loop test reads no null pointer, every
\* iteration is as above, and the test fails before fuel iterations are
\* over.
RECURSIVE LoopOk(_, _)
LoopOk(t, fuel) ==
  /\ ~FixInsertCondTraps(t)
  /\ FixInsertCond(t) =>
       /\ fuel > 0
       /\ \A u \in {FixInsertBody(t)} : IterationOk(t, u) /\ LoopOk(u, fuel - 1)

\* fixInsert from t: the loop is as above within one iteration per two
\* levels of depth of the new node, and the call ends with a black root.
FixInsertOk(t) ==
  /\ LoopOk(t, Depth(t.h, t.z, 2 * MaxKey) \div 2)
  /\ ~fixInsert(t).bad
  /\ ~fixInsert(t).h[fixInsert(t).r].color

\* C20: for every tree reached by the public calls and every key not in it,
\* the fix-up loop of insert terminates: each iteration has a grandparent
\* and either moves z two levels up (red uncle) or rotates and leaves z
\* under a black parent so that the loop exits; the root is black at the end.
C20_FixInsertTerminates ==
  Returned =>
    \A k \in TallKeys :
      count(heap, root[1], k) = 1 \/ FixInsertOk(FixInsertStart(k))

\* A tree of seven entries built by operator[] in which the next insert
\* recolours under a red uncle and then rotates two levels higher.
C20_Witness ==
  /\ Returned /\ ret.op = "subscript" /\ ret.ok
  /\ \E k \in TallKeys :
       /\ count(heap, root[1], k) = 0
       /\ Iterations(FixInsertStart(k), 2 * MaxKey) = 2
       /\ UncleIsRed(FixInsertStart(k).h, Uncle(FixInsertStart(k)))
       /\ ~UncleIsRed(FixInsertBody(FixInsertStart(k)).h,
                      Uncle(FixInsertBody(FixInsertStart(k))))

\* The node erase splices out for z (y of lines 650 and 662) and the fix-up
\* node it passes on (x of lines 655, 658 and 664).
SplicedOut(h, z) ==
  IF h[z].left = Null \/ h[z].right = Null THEN z ELSE minimum(h, h[z].right)

Placeholder(h, z) ==
  IF h[z].left = Null THEN h[z].right
  ELSE IF h[z].right = Null THEN h[z].left
  ELSE h[SplicedOut(h, z)].right

\* erase(pos) reaches fixDelete(nullptr): the spliced-out node is black and
\* nothing stands in its place.
FixesNull(pos) ==
  /\ pos.node # Null
  /\ ~heap[SplicedOut(heap, pos.node)].color
  /\ Placeholder(heap, pos.node) = Null

\* C19: an erase that splices out a black node with a null replacement runs
\* delete-fixup on the null placeholder to its end: the call returns, no
\* field of a null node is read, and the red-black balance holds again.
C19_NullPlaceholderFixed ==
  [][ret'.op = "erase" =>
       \A m \in Maps : \A pos \in ValidIters :
         (pos.container = m /\ FixesNull(pos) /\ Erase(m, pos))
           => pc' = "idle" /\ RedBlack(m)']_vars

\* The number of downward paths (through left and right) from node a to
\* node n; the fuel is one more than the number of addresses, so a node on a
\* cycle is met twice.
RECURSIVE PathsTo(_, _, _, _)
PathsTo(h, a, n, fuel) ==
  IF a = Null \/ fuel = 0 THEN 0
  ELSE (IF a = n THEN 1 ELSE 0)
         + PathsTo(h, h[a].left, n, fuel - 1)
         + PathsTo(h, h[a].right, n, fuel - 1)

PathsFromRoot(m, n) == PathsTo(heap, root[m], n, 2 * MaxKey + 1)

\* The root has no parent and every child points back at its parent.
BackLinks ==
  /\ \A m \in Maps : root[m] # Null => heap[root[m]].parent = Null
  /\ \A n \in Addrs :
       heap[n].live =>
         /\ heap[n].left # Null => heap[heap[n].left].parent = n
         /\ heap[n].right # Null => heap[heap[n].right].parent = n

\* Every allocated node hangs under the root of exactly one constructed map,
\* by exactly one path, and nothing else hangs under a root.
OnePath ==
  \A n \in Addrs :
    IF heap[n].live
    THEN \E m \in Maps :
           /\ alive[m]
           /\ PathsFromRoot(m, n) = 1
           /\ \A o \in Maps \ {m} : PathsFromRoot(o, n) = 0
    ELSE \A m \in Maps : PathsFromRoot(m, n) = 0

\* root is null exactly when size() is 0, and then begin() == end().
EmptyIffNoRoot ==
  \A m \in Maps :
    /\ (root[m] = Null) <=> (tree_size[m] = 0)
    /\ tree_size[m] = 0 => IterEq(Begin(m), End(m))

\* C21: between public calls the nodes form well-formed trees: the root has
\* a null parent, every non-null child's parent field is the node it hangs
\* under, every live node is reached from a root by exactly one path, and
\* root is null exactly when size() is 0, where begin() == end().
C21_TreeIsWellFormed ==
  Returned => BackLinks /\ OnePath /\ EmptyIffNoRoot

\* An erase has returned from map 1, which keeps a root with two children,
\* while map 2 is constructed and empty.
C21_Witness ==
  /\ Returned /\ ret.op = "erase" /\ ret.threw = "none"
  /\ root[1] # Null
  /\ heap[root[1]].left # Null /\ heap[root[1]].right # Null
  /\ alive[2] /\ tree_size[2] = 0

====
